---- MODULE Spec2Model ----
(***************************************************************************)
(* A model of ERDGenerator (src/main.py, with its twin in src/erd.py):     *)
(* the in-memory schema (entities, relationships), the networkx graph G    *)
(* that add_entity / add_relationship maintain, and export_to_sql; then    *)
(* the generation from a topic of either script, the readers (visualize,   *)
(* the summaries, the sample data) and main.py's saving to and loading     *)
(* from the table erd_schemas.                                             *)
(*                                                                         *)
(* A Python dict is an insertion-ordered sequence of [key, value] records; *)
(* an attribute descriptor is a function whose domain is the set of keys   *)
(* the dict holds (a missing key is a key outside the domain).             *)
(***************************************************************************)
EXTENDS Integers, Sequences, FiniteSets, TLC

VARIABLES G, entities, relationships, ret, ops,
          script, generated_from, database_url, erd_schemas, current_schema_id

vars == <<G, entities, relationships, ret, ops,
          script, generated_from, database_url, erd_schemas, current_schema_id>>

\* what the calls on the schema alone leave as it is: the script that runs,
\* the topic of the last generation, and the database
session == <<script, generated_from, database_url, erd_schemas, current_schema_id>>

(***************************************************************************)
(* Bounds of the model.                                                    *)
(***************************************************************************)
MaxOps == 3
MaxAttrs == 2
MaxRelAttrs == 1
MaxParts == 3
MaxSchemas == 1
MaxSessionOps == 2

\* rows the table erd_schemas gets when a DatabaseManager is driven on its own
MaxRows == 2

(***************************************************************************)
(* Inputs.                                                                 *)
(***************************************************************************)
EntityNames == {"Book", "Author"}
RelNames == {"Writes", "Book"}

\* Attribute descriptors handed to add_entity.
EntityDescs ==
    { [name |-> "id", type |-> "INT", is_key |-> TRUE],
      [name |-> "code", type |-> "CHAR(2)", is_key |-> TRUE],
      [name |-> "title", type |-> "VARCHAR(255)"],
      [name |-> "age", is_key |-> FALSE, is_derived |-> TRUE],
      [type |-> "INT"] }

\* Attribute descriptors handed to add_relationship.
RelDescs ==
    { [name |-> "since", type |-> "DATE"],
      [name |-> "id", type |-> "INT", is_key |-> TRUE, is_derived |-> TRUE] }

SeqsUpTo(S, n) == UNION { [1..k -> S] : k \in 0..n }

EntityAttrLists == SeqsUpTo(EntityDescs, MaxAttrs)
RelAttrLists == SeqsUpTo(RelDescs, MaxRelAttrs)
PartLists == SeqsUpTo(EntityNames, MaxParts)

(***************************************************************************)
(* Python dicts.                                                           *)
(***************************************************************************)
\* k in d
Has(d, k) == \E i \in 1..Len(d) : d[i].key = k

\* d[k]
Get(d, k) == d[CHOOSE i \in 1..Len(d) : d[i].key = k].value

\* Put gone wrong: the key goes last whether the dict has it or not
PutAppends(d, k, v) == Append(d, [key |-> k, value |-> v])

\* d[k] = v : an existing key keeps its position, a new key goes last
Put(d, k, v) ==
    IF Has(d, k)
    THEN [i \in 1..Len(d) |-> IF d[i].key = k THEN [key |-> k, value |-> v] ELSE d[i]]
    ELSE Append(d, [key |-> k, value |-> v])

\* attr.get(key, default)
DictGet(attr, key, default) == IF key \in DOMAIN attr THEN attr[key] ELSE default

\* bool(attr.get(key)) for the flags of a descriptor
Truthy(attr, key) == key \in DOMAIN attr /\ attr[key] = TRUE

(***************************************************************************)
(* networkx.DiGraph: nodes and edges each carry an attribute dict;         *)
(* add_node / add_edge on an existing node or edge update its dict, and    *)
(* add_edge creates the end points it does not find.                       *)
(***************************************************************************)

NoData == [x \in {} |-> x]

EmptyGraph == [nodes |-> NoData, edges |-> NoData]

add_node(g, n, data) ==
    [g EXCEPT !.nodes =
        IF n \in DOMAIN g.nodes
        THEN [g.nodes EXCEPT ![n] = data @@ g.nodes[n]]
        ELSE (n :> data) @@ g.nodes]

add_edge(g, u, v, data) ==
    LET withU == IF u \in DOMAIN g.nodes THEN g.nodes ELSE (u :> NoData) @@ g.nodes
        withUV == IF v \in DOMAIN withU THEN withU ELSE (v :> NoData) @@ withU
        e == <<u, v>>
    IN  [nodes |-> withUV,
         edges |-> IF e \in DOMAIN g.edges
                   THEN [g.edges EXCEPT ![e] = data @@ g.edges[e]]
                   ELSE (e :> data) @@ g.edges]

(***************************************************************************)
(* ERDGenerator.add_entity and add_relationship.  A call that raises stops *)
(* where it raises: what it did before stays done.                         *)
(***************************************************************************)
\* f"{owner}_{attr['name']}"
AttrNode(owner, attr) == owner \o "_" \o attr.name

\* f"{attr['name']}\n({type})"
DisplayName(attr) == attr.name \o "\n(" \o DictGet(attr, "type", "VARCHAR") \o ")"

\* the body of add_entity's loop for one descriptor
EntityAttrStep(g, name, attr) ==
    LET is_derived == DictGet(attr, "is_derived", FALSE)
        withNode == add_node(g, AttrNode(name, attr),
                        [shape |-> "oval", node_type |-> "attribute",
                         display_name |-> DisplayName(attr),
                         is_key |-> DictGet(attr, "is_key", FALSE),
                         is_derived |-> is_derived])
    IN  add_edge(withNode, name, AttrNode(name, attr),
            [edge_type |-> "attribute",
             style |-> IF is_derived = TRUE THEN "dotted" ELSE "solid"])

\* the for loop of add_entity from descriptor i on; attr['name'] raises
\* KeyError on a descriptor without a name
RECURSIVE EntityAttrLoop(_, _, _, _)
EntityAttrLoop(g, name, attributes, i) ==
    IF i > Len(attributes) THEN [G |-> g, exc |-> "None"]
    ELSE IF "name" \notin DOMAIN attributes[i] THEN [G |-> g, exc |-> "KeyError"]
    ELSE EntityAttrLoop(EntityAttrStep(g, name, attributes[i]), name, attributes, i + 1)

add_entity(g, ents, name, attributes) ==
    LET withEntity == add_node(g, name, [shape |-> "box", node_type |-> "entity"])
        looped == EntityAttrLoop(withEntity, name, attributes, 1)
    IN  [G |-> looped.G, entities |-> Put(ents, name, attributes), exc |-> looped.exc]

\* for entity in entities: self.G.add_edge(entity, name, edge_type="participation")
RECURSIVE ParticipationLoop(_, _, _, _)
ParticipationLoop(g, name, ents, i) ==
    IF i > Len(ents) THEN g
    ELSE ParticipationLoop(add_edge(g, ents[i], name, [edge_type |-> "participation"]),
                           name, ents, i + 1)

\* the body of add_relationship's attribute loop for one descriptor
RelAttrStep(g, name, attr) ==
    LET withNode == add_node(g, AttrNode(name, attr),
                        [shape |-> "oval", node_type |-> "attribute",
                         display_name |-> DisplayName(attr)])
    IN  add_edge(withNode, name, AttrNode(name, attr), [edge_type |-> "attribute"])

RECURSIVE RelAttrLoop(_, _, _, _)
RelAttrLoop(g, name, attributes, i) ==
    IF i > Len(attributes) THEN [G |-> g, exc |-> "None"]
    ELSE IF "name" \notin DOMAIN attributes[i] THEN [G |-> g, exc |-> "KeyError"]
    ELSE RelAttrLoop(RelAttrStep(g, name, attributes[i]), name, attributes, i + 1)

\* attributes=None and attributes=[] are both falsy and behave alike: the
\* model passes << >> for either
add_relationship(g, rels, name, ents, attributes) ==
    LET withRel == add_node(g, name, [shape |-> "diamond", node_type |-> "relationship"])
        withParts == ParticipationLoop(withRel, name, ents, 1)
        looped == RelAttrLoop(withParts, name, attributes, 1)
    IN  [G |-> looped.G,
         relationships |-> Put(rels, name, [entities |-> ents, attributes |-> attributes]),
         exc |-> looped.exc]

(***************************************************************************)
(* ERDGenerator.export_to_sql.  A statement is kept as its table name and  *)
(* the clauses the code joins with ",\n" between "CREATE TABLE <name> (\n" *)
(* and "\n);": a column "<name> <type>", "PRIMARY KEY (<cols>)" or         *)
(* "FOREIGN KEY (<col>) REFERENCES <table>(<ref>)".                        *)
(***************************************************************************)
Column(name, type) == [kind |-> "column", name |-> name, type |-> type]

PrimaryKey(cols) == [kind |-> "primary_key", cols |-> cols]

ForeignKey(col, table, ref) ==
    [kind |-> "foreign_key", col |-> col, table |-> table, ref |-> ref]

\* str.lower() on the names the model uses
Lower(s) ==
    CASE s = "Book" -> "book"
      [] s = "Author" -> "author"
      [] s = "Writes" -> "writes"

\* attr['name'] and attr['type'] both succeed
Exportable(attr) == "name" \in DOMAIN attr /\ "type" \in DOMAIN attr

\* KeyNames gone wrong: only the first key attribute is collected
KeyNamesFirstOnly(attributes) ==
    LET keyed == { i \in 1..Len(attributes) : Truthy(attributes[i], "is_key") }
    IN  IF keyed = {} THEN << >>
        ELSE <<attributes[CHOOSE i \in keyed : \A j \in keyed : i <= j].name>>

\* [attr['name'] for attr in attributes if attr.get('is_key')]
RECURSIVE KeyNames(_)
KeyNames(attributes) ==
    IF attributes = << >> THEN << >>
    ELSE (IF Truthy(Head(attributes), "is_key") THEN <<Head(attributes).name>> ELSE << >>)
         \o KeyNames(Tail(attributes))

\* EntityTable gone wrong: the columns come out last attribute first
EntityTableColumnsReversed(name, attributes) ==
    LET primary_keys == KeyNames(attributes)
        n == Len(attributes)
        attr_definitions ==
            [i \in 1..n |-> Column(attributes[n + 1 - i].name, attributes[n + 1 - i].type)]
    IN  [table |-> name,
         clauses |-> attr_definitions \o
                     (IF primary_keys # << >> THEN <<PrimaryKey(primary_keys)>> ELSE << >>)]

\* the entity loop's statement for one entity
EntityTable(name, attributes) ==
    LET primary_keys == KeyNames(attributes)
        attr_definitions ==
            [i \in 1..Len(attributes) |-> Column(attributes[i].name, attributes[i].type)]
    IN  [table |-> name,
         clauses |-> attr_definitions \o
                     (IF primary_keys # << >> THEN <<PrimaryKey(primary_keys)>> ELSE << >>)]

\* next((attr['name'] for attr in self.entities[e] if attr.get('is_key')), f"{e.lower()}_id")
FirstKeyName(ents, e) ==
    LET keyed == { i \in 1..Len(Get(ents, e)) : Truthy(Get(ents, e)[i], "is_key") }
    IN  IF keyed = {} THEN Lower(e) \o "_id"
        ELSE Get(ents, e)[CHOOSE i \in keyed : \A j \in keyed : i <= j].name

_get_pk_type(ents, e) ==
    LET keyed == { i \in 1..Len(Get(ents, e)) : Truthy(Get(ents, e)[i], "is_key") }
    IN  IF keyed = {} THEN "INT"
        ELSE Get(ents, e)[CHOOSE i \in keyed : \A j \in keyed : i <= j].type

\* RelTable gone wrong: each FOREIGN KEY references the other participant
RelTableSwappedRefs(ents, rel_name, rel_data) ==
    LET entity1 == rel_data.entities[1]
        entity2 == rel_data.entities[2]
        entity1_pk == FirstKeyName(ents, entity1)
        entity2_pk == FirstKeyName(ents, entity2)
        attrs == rel_data.attributes
    IN  [table |-> rel_name,
         clauses |->
            << Column(entity1_pk, _get_pk_type(ents, entity1)),
               Column(entity2_pk, _get_pk_type(ents, entity2)) >>
            \o [i \in 1..Len(attrs) |-> Column(attrs[i].name, attrs[i].type)]
            \o << PrimaryKey(<<entity1_pk, entity2_pk>>),
                  ForeignKey(entity1_pk, entity2, entity2_pk),
                  ForeignKey(entity2_pk, entity1, entity1_pk) >>]

\* the relationship loop's statement for one binary relationship with attributes
RelTable(ents, rel_name, rel_data) ==
    LET entity1 == rel_data.entities[1]
        entity2 == rel_data.entities[2]
        entity1_pk == FirstKeyName(ents, entity1)
        entity2_pk == FirstKeyName(ents, entity2)
        attrs == rel_data.attributes
    IN  [table |-> rel_name,
         clauses |->
            << Column(entity1_pk, _get_pk_type(ents, entity1)),
               Column(entity2_pk, _get_pk_type(ents, entity2)) >>
            \o [i \in 1..Len(attrs) |-> Column(attrs[i].name, attrs[i].type)]
            \o << PrimaryKey(<<entity1_pk, entity2_pk>>),
                  ForeignKey(entity1_pk, entity1, entity1_pk),
                  ForeignKey(entity2_pk, entity2, entity2_pk) >>]

\* the relationship loop reaches rel_data and raises there: a participant of
\* a binary relationship that self.entities does not hold, or a relationship
\* attribute without a name or a type
RelRaises(ents, rel_data) ==
    /\ Len(rel_data.entities) = 2
    /\ \/ \E i \in 1..2 : ~Has(ents, rel_data.entities[i])
       \/ \E i \in 1..Len(rel_data.attributes) : ~Exportable(rel_data.attributes[i])

\* EmitsJoinTable gone wrong: the attribute gate is missing
EmitsJoinTableUngated(rel_data) == Len(rel_data.entities) = 2

\* len(rel_data['entities']) == 2 and rel_data.get('attributes')
EmitsJoinTable(rel_data) ==
    Len(rel_data.entities) = 2 /\ rel_data.attributes # << >>

RECURSIVE RelTables(_, _, _)
RelTables(ents, rels, i) ==
    IF i > Len(rels) THEN << >>
    ELSE (IF EmitsJoinTable(rels[i].value)
          THEN <<RelTable(ents, rels[i].key, rels[i].value)>> ELSE << >>)
         \o RelTables(ents, rels, i + 1)

\* export_to_sql: the statements in the order emitted, or the KeyError raised
export_to_sql(ents, rels) ==
    IF \/ \E i \in 1..Len(ents) : \E j \in 1..Len(ents[i].value) : ~Exportable(ents[i].value[j])
       \/ \E i \in 1..Len(rels) : RelRaises(ents, rels[i].value)
    THEN [exc |-> "KeyError", value |-> << >>]
    ELSE [exc |-> "None",
          value |-> [i \in 1..Len(ents) |-> EntityTable(ents[i].key, ents[i].value)]
                    \o RelTables(ents, rels, 1)]

(***************************************************************************)
(* Ingesting a schema {entities, relationships}: the two for-loops shared  *)
(* by generate_from_prompt, load_from_database and erd.py's                *)
(* generate_from_ai.  An exception of add_entity or add_relationship ends  *)
(* the ingestion where it is raised.                                       *)
(***************************************************************************)
RECURSIVE AddEntities(_, _, _, _)
AddEntities(g, ents, items, i) ==
    IF i > Len(items) THEN [G |-> g, entities |-> ents, exc |-> "None"]
    ELSE LET r == add_entity(g, ents, items[i].key, items[i].value)
         IN  IF r.exc # "None" THEN r
             ELSE AddEntities(r.G, r.entities, items, i + 1)

\* rel_data.get("attributes", []) supplies the list a relationship lacks
RECURSIVE AddRelationships(_, _, _, _)
AddRelationships(g, rels, items, i) ==
    IF i > Len(items) THEN [G |-> g, relationships |-> rels, exc |-> "None"]
    ELSE LET r == add_relationship(g, rels, items[i].key, items[i].value.entities,
                                   DictGet(items[i].value, "attributes", << >>))
         IN  IF r.exc # "None" THEN r
             ELSE AddRelationships(r.G, r.relationships, items, i + 1)

Ingest(g, ents, rels, schema) ==
    LET e == AddEntities(g, ents, schema.entities, 1)
        r == AddRelationships(e.G, rels, schema.relationships, 1)
    IN  IF e.exc # "None"
        THEN [G |-> e.G, entities |-> e.entities, relationships |-> rels, exc |-> e.exc]
        ELSE [G |-> r.G, entities |-> e.entities, relationships |-> r.relationships,
              exc |-> r.exc]

\* the graph built from nothing but the given entities and relationships, as
\* load_from_database builds it after clearing
Project(ents, rels) ==
    Ingest(EmptyGraph, << >>, << >>, [entities |-> ents, relationships |-> rels]).G

(***************************************************************************)
(* str.lower(), str.title() and the substring test "keyword in topic",     *)
(* computed character by character over the letters, the underscore and    *)
(* the space, in byte order.                                               *)
(***************************************************************************)
Upper26 == "ABCDEFGHIJKLMNOPQRSTUVWXYZ"

Lower26 == "abcdefghijklmnopqrstuvwxyz"

\* every character the model's strings are made of, in byte order
ByteOrder == " " \o Upper26 \o "_" \o Lower26

CharAt(s, i) == SubSeq(s, i, i)

IndexIn(alphabet, c) ==
    IF \E i \in 1..Len(alphabet) : CharAt(alphabet, i) = c
    THEN CHOOSE i \in 1..Len(alphabet) : CharAt(alphabet, i) = c
    ELSE 0

LowerChar(c) == IF IndexIn(Upper26, c) > 0 THEN CharAt(Lower26, IndexIn(Upper26, c)) ELSE c

UpperChar(c) == IF IndexIn(Lower26, c) > 0 THEN CharAt(Upper26, IndexIn(Lower26, c)) ELSE c

IsCased(c) == IndexIn(Upper26, c) > 0 \/ IndexIn(Lower26, c) > 0

\* topic.lower()
RECURSIVE str_lower(_)
str_lower(s) ==
    IF s = "" THEN "" ELSE LowerChar(CharAt(s, 1)) \o str_lower(SubSeq(s, 2, Len(s)))

\* topic.title(): a letter that follows a letter is lowercased, any other
\* letter is uppercased
RECURSIVE TitleFrom(_, _)
TitleFrom(s, afterLetter) ==
    IF s = "" THEN ""
    ELSE LET c == CharAt(s, 1)
         IN  (IF afterLetter THEN LowerChar(c) ELSE UpperChar(c))
             \o TitleFrom(SubSeq(s, 2, Len(s)), IsCased(c))

str_title(s) == TitleFrom(s, FALSE)

\* keyword in topic_lower
In(keyword, text) ==
    \E i \in 1..(Len(text) - Len(keyword) + 1) : SubSeq(text, i, i + Len(keyword) - 1) = keyword

(***************************************************************************)
(* _call_ai_simulation: the templates of the two scripts and the choice    *)
(* of one by keyword score.                                                *)
(***************************************************************************)
Item(k, v) == [key |-> k, value |-> v]

Attr(name, type) == [name |-> name, type |-> type]

KeyAttr(name, type) == [name |-> name, type |-> type, is_key |-> TRUE]

LibraryEntities ==
    << Item("Book", << KeyAttr("book_id", "INT"), Attr("title", "VARCHAR(255)"),
                       Attr("isbn", "VARCHAR(20)") >>),
       Item("Author", << KeyAttr("author_id", "INT"), Attr("name", "VARCHAR(255)") >>),
       Item("Member", << KeyAttr("member_id", "INT"), Attr("name", "VARCHAR(255)"),
                         Attr("join_date", "DATE") >>) >>

\* src/main.py: a relationship without attributes has no "attributes" key
main_erd_templates ==
    << Item("library",
         [keywords |-> <<"library", "book", "author", "borrow", "librarian">>,
          schema |->
            [entities |-> LibraryEntities,
             relationships |->
               << Item("Writes", [entities |-> <<"Author", "Book">>]),
                  Item("Borrows", [entities |-> <<"Member", "Book">>,
                                   attributes |-> <<Attr("borrow_date", "DATE")>>]) >>]]),
       Item("ecommerce",
         [keywords |-> <<"shop", "store", "product", "customer", "order", "purchase">>,
          schema |->
            [entities |->
               << Item("Customer", << KeyAttr("customer_id", "INT"),
                                      Attr("name", "VARCHAR(255)"),
                                      Attr("email", "VARCHAR(255)") >>),
                  Item("Product", << KeyAttr("product_id", "INT"),
                                     Attr("name", "VARCHAR(255)"),
                                     Attr("price", "DECIMAL(10,2)") >>),
                  Item("Order", << KeyAttr("order_id", "INT"), Attr("order_date", "DATE"),
                                   Attr("total", "DECIMAL(10,2)") >>) >>,
             relationships |->
               << Item("Places", [entities |-> <<"Customer", "Order">>]),
                  Item("Contains", [entities |-> <<"Order", "Product">>,
                                    attributes |-> <<Attr("quantity", "INT")>>]) >>]]),
       Item("school",
         [keywords |-> <<"school", "student", "teacher", "course", "class", "grade">>,
          schema |->
            [entities |->
               << Item("Student", << KeyAttr("student_id", "INT"),
                                     Attr("name", "VARCHAR(255)"),
                                     Attr("enrollment_date", "DATE") >>),
                  Item("Course", << KeyAttr("course_id", "INT"),
                                    Attr("course_name", "VARCHAR(255)"),
                                    Attr("credits", "INT") >>),
                  Item("Instructor", << KeyAttr("instructor_id", "INT"),
                                        Attr("name", "VARCHAR(255)"),
                                        Attr("department", "VARCHAR(100)") >>) >>,
             relationships |->
               << Item("Enrolls", [entities |-> <<"Student", "Course">>,
                                   attributes |-> <<Attr("grade", "CHAR(2)")>>]),
                  Item("Teaches", [entities |-> <<"Instructor", "Course">>]) >>]]) >>

\* src/erd.py
erd_erd_templates ==
    << Item("library",
         [keywords |-> <<"library", "book", "author", "borrow", "librarian">>,
          schema |->
            [entities |-> LibraryEntities,
             relationships |->
               << Item("Writes", [entities |-> <<"Author", "Book">>, attributes |-> << >>]),
                  Item("Borrows", [entities |-> <<"Member", "Book">>,
                                   attributes |-> <<Attr("borrow_date", "DATE")>>]) >>]]),
       Item("ecommerce",
         [keywords |-> <<"ecommerce", "shop", "store", "product", "customer", "order", "cart">>,
          schema |->
            [entities |->
               << Item("Customer", << KeyAttr("customer_id", "INT"),
                                      Attr("name", "VARCHAR(255)"),
                                      Attr("email", "VARCHAR(255)") >>),
                  Item("Product", << KeyAttr("product_id", "INT"),
                                     Attr("name", "VARCHAR(255)"),
                                     Attr("price", "DECIMAL(10,2)") >>),
                  Item("Order", << KeyAttr("order_id", "INT"),
                                   Attr("order_date", "DATE") >>) >>,
             relationships |->
               << Item("Places", [entities |-> <<"Customer", "Order">>,
                                  attributes |-> << >>]),
                  Item("Contains", [entities |-> <<"Order", "Product">>,
                                    attributes |-> <<Attr("quantity", "INT")>>]) >>]]),
       Item("school",
         [keywords |-> <<"school", "student", "teacher", "course", "college", "university">>,
          schema |->
            [entities |->
               << Item("Student", << KeyAttr("student_id", "INT"),
                                     Attr("name", "VARCHAR(255)"),
                                     Attr("enrollment_date", "DATE") >>),
                  Item("Teacher", << KeyAttr("teacher_id", "INT"),
                                     Attr("name", "VARCHAR(255)"),
                                     Attr("department", "VARCHAR(100)") >>),
                  Item("Course", << KeyAttr("course_id", "INT"),
                                    Attr("title", "VARCHAR(255)"),
                                    Attr("credits", "INT") >>) >>,
             relationships |->
               << Item("Enrolls", [entities |-> <<"Student", "Course">>,
                                   attributes |-> <<Attr("grade", "CHAR(1)")>>]),
                  Item("Teaches", [entities |-> <<"Teacher", "Course">>,
                                   attributes |-> << >>]) >>]]) >>

\* sum(1 for keyword in keywords if keyword in topic_lower)
Score(keywords, topic_lower) ==
    Cardinality({ i \in 1..Len(keywords) : In(keywords[i], topic_lower) })

\* src/main.py: the loop keeps the first template whose score beats every
\* earlier one; best_match starts as "library" and max_score as 0
RECURSIVE BestMatchLoop(_, _, _, _, _)
BestMatchLoop(templates, topic_lower, i, best_match, max_score) ==
    IF i > Len(templates) THEN best_match
    ELSE LET score == Score(templates[i].value.keywords, topic_lower)
         IN  IF score > max_score
             THEN BestMatchLoop(templates, topic_lower, i + 1, templates[i].key, score)
             ELSE BestMatchLoop(templates, topic_lower, i + 1, best_match, max_score)

main_call_ai_simulation(topic) ==
    Get(main_erd_templates,
        BestMatchLoop(main_erd_templates, str_lower(topic), 1, "library", 0)).schema

\* src/erd.py: max(scores, key=scores.get) is the first template of the
\* highest score; with no keyword matched the schema is one entity named
\* topic.title()
erd_call_ai_simulation(topic) ==
    LET templates == erd_erd_templates
        score(i) == Score(templates[i].value.keywords, str_lower(topic))
        first == CHOOSE i \in 1..Len(templates) :
                    /\ \A j \in 1..Len(templates) : score(j) <= score(i)
                    /\ \A j \in 1..(i - 1) : score(j) < score(i)
    IN  IF \E i \in 1..Len(templates) : score(i) > 0
        THEN templates[first].value.schema
        ELSE [entities |->
                << Item(str_title(topic), << KeyAttr("id", "INT"), Attr("name", "VARCHAR(255)"),
                                             Attr("description", "TEXT") >>) >>,
              relationships |-> << >>]

(***************************************************************************)
(* The state machine: one action per public call.  ret is what the last    *)
(* call returned or raised; ops counts the mutating calls made.            *)
(***************************************************************************)
Range(s) == { s[i] : i \in 1..Len(s) }

\* the attribute lists the model stores, entities' and relationships'
StoredAttrLists ==
    { entities[i].value : i \in 1..Len(entities) }
    \cup { relationships[i].value.attributes : i \in 1..Len(relationships) }

Init ==
    /\ G = EmptyGraph
    /\ entities = << >>
    /\ relationships = << >>
    /\ ret = [op |-> "__init__", exc |-> "None", value |-> << >>]
    /\ ops = 0
    /\ script = "main.py"
    /\ generated_from = ""
    /\ database_url = FALSE
    /\ erd_schemas = << >>
    /\ current_schema_id = 0

AddEntity(name, attributes) ==
    /\ ops < MaxOps
    /\ LET r == add_entity(G, entities, name, attributes)
       IN  /\ G' = r.G
           /\ entities' = r.entities
           /\ ret' = [op |-> "add_entity", exc |-> r.exc, value |-> << >>]
    /\ ops' = ops + 1
    /\ UNCHANGED <<relationships, session>>

AddRelationship(name, ents, attributes) ==
    /\ ops < MaxOps
    /\ LET r == add_relationship(G, relationships, name, ents, attributes)
       IN  /\ G' = r.G
           /\ relationships' = r.relationships
           /\ ret' = [op |-> "add_relationship", exc |-> r.exc, value |-> << >>]
    /\ ops' = ops + 1
    /\ UNCHANGED <<entities, session>>

ExportToSql ==
    /\ LET r == export_to_sql(entities, relationships)
       IN  ret' = [op |-> "export_to_sql", exc |-> r.exc, value |-> r.value]
    /\ UNCHANGED <<G, entities, relationships, ops, session>>

Next ==
    \/ \E name \in EntityNames, attributes \in EntityAttrLists : AddEntity(name, attributes)
    \/ \E name \in RelNames, ents \in PartLists, attributes \in RelAttrLists :
          AddRelationship(name, ents, attributes)
    \/ ExportToSql

Spec == Init /\ [][Next]_vars

(***************************************************************************)
(* The same two operations on names that hold the "_" the attribute nodes  *)
(* are keyed with.                                                         *)
(***************************************************************************)
UnderscoreEntityNames == {"Loan", "Loan_item"}

UnderscoreAttrs ==
    { [name |-> "item", type |-> "INT", is_key |-> TRUE],
      [name |-> "item_id", type |-> "INT"],
      [name |-> "id", type |-> "INT", is_key |-> TRUE] }

UnderscoreAttrLists == SeqsUpTo(UnderscoreAttrs, MaxAttrs)

UnderscoreNext ==
    \/ \E name \in UnderscoreEntityNames, attributes \in UnderscoreAttrLists :
          AddEntity(name, attributes)
    \/ \E attributes \in SeqsUpTo({[name |-> "since", type |-> "DATE"]}, MaxRelAttrs) :
          AddRelationship("Has", <<"Loan", "Loan_item">>, attributes)

SpecUnderscore == Init /\ [][UnderscoreNext]_vars

(***************************************************************************)
(* DatabaseManager: erd_schemas is the table of that name, a row being its *)
(* SERIAL id and its JSONB column schema_data.  json.dumps writes the      *)
(* dicts in insertion order; JSONB keeps the keys of an object sorted by   *)
(* length, then by bytes, and that is the order psycopg2 hands back.  The  *)
(* keys of a descriptor have no order in the model, arrays keep theirs.    *)
(* None is 0 where an id is expected.                                      *)
(***************************************************************************)
RECURSIVE BytesLess(_, _)
BytesLess(a, b) ==
    IF b = "" THEN FALSE
    ELSE IF a = "" THEN TRUE
    ELSE LET x == IndexIn(ByteOrder, CharAt(a, 1))
             y == IndexIn(ByteOrder, CharAt(b, 1))
         IN  IF x # y THEN x < y
             ELSE BytesLess(SubSeq(a, 2, Len(a)), SubSeq(b, 2, Len(b)))

JsonbKeyLess(a, b) == Len(a) < Len(b) \/ (Len(a) = Len(b) /\ BytesLess(a, b))

\* an item put at its place among items already in JSONB order
RECURSIVE JsonbInsert(_, _)
JsonbInsert(sorted, item) ==
    IF sorted = << >> THEN <<item>>
    ELSE IF JsonbKeyLess(item.key, Head(sorted).key) THEN <<item>> \o sorted
    ELSE <<Head(sorted)>> \o JsonbInsert(Tail(sorted), item)

\* a JSON object as JSONB returns it
RECURSIVE JsonbObject(_)
JsonbObject(d) ==
    IF d = << >> THEN << >>
    ELSE JsonbInsert(JsonbObject(SubSeq(d, 1, Len(d) - 1)), d[Len(d)])

\* json.dumps({"entities": entities, "relationships": relationships}) as the
\* column reads after the INSERT
Jsonb(ents, rels) == [entities |-> JsonbObject(ents), relationships |-> JsonbObject(rels)]

\* a row of erd_schemas; a deleted row leaves its id behind, which the SERIAL
\* column does not give out again
HasRow(schema_id) ==
    \E i \in 1..Len(erd_schemas) :
        erd_schemas[i].id = schema_id /\ "schema_data" \in DOMAIN erd_schemas[i]

Row(schema_id) == erd_schemas[CHOOSE i \in 1..Len(erd_schemas) : erd_schemas[i].id = schema_id]

\* INSERT INTO erd_schemas ... RETURNING id
Inserted(ents, rels) ==
    Append(erd_schemas, [id |-> Len(erd_schemas) + 1, schema_data |-> Jsonb(ents, rels)])

\* DELETE FROM erd_schemas WHERE id = schema_id
Deleted(schema_id) ==
    [i \in 1..Len(erd_schemas) |->
        IF erd_schemas[i].id = schema_id THEN [id |-> schema_id] ELSE erd_schemas[i]]

(***************************************************************************)
(* DatabaseManager.  What psycopg2 does in a call is an input: it works,   *)
(* connect raises, or execute raises (both psycopg2.Error).  A method      *)
(* yields its exception or value (None is << >>), the table, and how many  *)
(* connections it opened and closed.  Each method assigns conn inside its  *)
(* try and reads it in its finally: when connect has raised, conn is       *)
(* unbound there and the finally raises UnboundLocalError over the value   *)
(* the except clause was returning.                                        *)
(***************************************************************************)
DbFailures == {"none", "connect", "execute"}

DbCall(failure, failed, value, rows) ==
    IF ~database_url
    THEN [exc |-> "None", value |-> failed, erd_schemas |-> erd_schemas,
          opened |-> 0, closed |-> 0]
    ELSE IF failure = "connect"
    THEN [exc |-> "UnboundLocalError", value |-> << >>, erd_schemas |-> erd_schemas,
          opened |-> 0, closed |-> 0]
    ELSE IF failure = "execute"
    THEN [exc |-> "None", value |-> failed, erd_schemas |-> erd_schemas,
          opened |-> 1, closed |-> 1]
    ELSE [exc |-> "None", value |-> value, erd_schemas |-> rows,
          opened |-> 1, closed |-> 1]

save_schema(ents, rels, failure) ==
    DbCall(failure, << >>, <<[schema_id |-> Len(erd_schemas) + 1]>>, Inserted(ents, rels))

load_schema(schema_id, failure) ==
    DbCall(failure, << >>, IF HasRow(schema_id) THEN <<Row(schema_id)>> ELSE << >>, erd_schemas)

\* the rows there are, by id
LiveRows == SelectSeq(erd_schemas, LAMBDA row : "schema_data" \in DOMAIN row)

\* SELECT id, ... ORDER BY updated_at DESC: the ids, the row saved last first
list_schemas(failure) ==
    DbCall(failure, <<[rows |-> << >>]>>,
           <<[rows |-> [i \in 1..Len(LiveRows) |-> LiveRows[Len(LiveRows) + 1 - i].id]]>>,
           erd_schemas)

delete_schema(schema_id, failure) ==
    DbCall(failure, <<[ok |-> FALSE]>>, <<[ok |-> HasRow(schema_id)]>>, Deleted(schema_id))

\* the INSERT into erd_visualizations names a row of erd_schemas
save_visualization_info(schema_id, failure) ==
    DbCall(IF failure = "none" /\ ~HasRow(schema_id) THEN "execute" ELSE failure,
           << >>, << >>, erd_schemas)

\* the calls on a DatabaseManager of its own: ret holds also the connections
\* the call opened and closed
DbRet(op, r) ==
    [op |-> op, exc |-> r.exc, value |-> r.value, opened |-> r.opened, closed |-> r.closed]

\* the dicts handed to save_schema
DbSchemas ==
    { [entities |-> << >>, relationships |-> << >>],
      [entities |-> <<[key |-> "Book", value |-> <<[name |-> "id", type |-> "INT", is_key |-> TRUE]>>],
                      [key |-> "Author", value |-> << >>]>>,
       relationships |-> <<[key |-> "Writes",
                            value |-> [entities |-> <<"Book", "Author">>,
                                       attributes |-> << >>]]>>] }

SaveSchema(schema, failure) ==
    /\ Len(erd_schemas) < MaxRows
    /\ LET r == save_schema(schema.entities, schema.relationships, failure)
       IN  /\ ret' = DbRet("save_schema", r)
           /\ erd_schemas' = r.erd_schemas
    /\ UNCHANGED <<G, entities, relationships, ops, script, generated_from, database_url,
                   current_schema_id>>

LoadSchema(schema_id, failure) ==
    /\ ret' = DbRet("load_schema", load_schema(schema_id, failure))
    /\ UNCHANGED <<G, entities, relationships, ops, session>>

ListSchemas(failure) ==
    /\ ret' = DbRet("list_schemas", list_schemas(failure))
    /\ UNCHANGED <<G, entities, relationships, ops, session>>

DeleteSchema(schema_id, failure) ==
    /\ LET r == delete_schema(schema_id, failure)
       IN  /\ ret' = DbRet("delete_schema", r)
           /\ erd_schemas' = r.erd_schemas
    /\ UNCHANGED <<G, entities, relationships, ops, script, generated_from, database_url,
                   current_schema_id>>

SaveVisualizationInfo(schema_id, failure) ==
    /\ ret' = DbRet("save_visualization_info", save_visualization_info(schema_id, failure))
    /\ UNCHANGED <<G, entities, relationships, ops, session>>

\* DATABASE_URL is set or not when the manager is made
DatabaseInit ==
    /\ G = EmptyGraph
    /\ entities = << >>
    /\ relationships = << >>
    /\ ret = [op |-> "__init__", exc |-> "None", value |-> << >>]
    /\ ops = 0
    /\ script = "main.py"
    /\ generated_from = ""
    /\ database_url \in BOOLEAN
    /\ erd_schemas = << >>
    /\ current_schema_id = 0

DatabaseNext ==
    \E failure \in DbFailures :
        \/ \E schema \in DbSchemas : SaveSchema(schema, failure)
        \/ \E schema_id \in 1..MaxRows : LoadSchema(schema_id, failure)
        \/ ListSchemas(failure)
        \/ \E schema_id \in 1..MaxRows : DeleteSchema(schema_id, failure)
        \/ \E schema_id \in 1..MaxRows : SaveVisualizationInfo(schema_id, failure)

SpecDatabase == DatabaseInit /\ [][DatabaseNext]_vars

\* the value save_schema returned, as current_schema_id holds it (0 is None)
SchemaId(value) == IF value = << >> THEN 0 ELSE value[1].schema_id

(***************************************************************************)
(* A session of either script: the calls its menus and its demo make on    *)
(* one ERDGenerator.                                                       *)
(***************************************************************************)
Scripts == {"erd.py", "main.py"}

Topics == {"library", "Online Shop", "school bookstore", "student course", "hospital"}

SessionAttrLists ==
    { << >>,
      << [name |-> "id", type |-> "INT", is_key |-> TRUE] >>,
      << [name |-> "age", is_key |-> FALSE, is_derived |-> TRUE] >>,
      << [type |-> "INT"] >> }

SessionPartLists == { <<"Book", "Author">>, <<"Author", "Member">> }

\* the names generate_sample_data has records for
SampleNames ==
    {"Book", "Author", "Member", "Customer", "Product", "Order", "Student", "Course",
     "Instructor"}

SessionInit ==
    /\ G = EmptyGraph
    /\ entities = << >>
    /\ relationships = << >>
    /\ ret = [op |-> "__init__", exc |-> "None", value |-> << >>]
    /\ ops = 0
    /\ script \in Scripts
    /\ generated_from = ""
    /\ database_url \in (IF script = "main.py" THEN BOOLEAN ELSE {FALSE})
    /\ erd_schemas = << >>
    /\ current_schema_id = 0

\* erd.py: generate_from_ai clears the graph and the dicts, then ingests
GenerateFromAi(t) ==
    /\ script = "erd.py"
    /\ ops < MaxSessionOps
    /\ LET r == Ingest(EmptyGraph, << >>, << >>, erd_call_ai_simulation(t))
       IN  /\ G' = r.G
           /\ entities' = r.entities
           /\ relationships' = r.relationships
           /\ ret' = [op |-> "generate_from_ai", exc |-> r.exc, value |-> << >>]
    /\ generated_from' = t
    /\ ops' = ops + 1
    /\ UNCHANGED <<script, database_url, erd_schemas, current_schema_id>>

\* main.py: generate_from_prompt ingests into what is there, then saves when
\* asked to (schema_name given) and a database is configured
GenerateFromPrompt(prompt, save_to_db, failure) ==
    /\ script = "main.py"
    /\ ops < MaxSessionOps
    /\ (save_to_db /\ database_url) => Len(erd_schemas) < MaxSchemas
    /\ LET r == Ingest(G, entities, relationships, main_call_ai_simulation(prompt))
           saves == r.exc = "None" /\ save_to_db /\ database_url
           s == save_schema(r.entities, r.relationships, failure)
       IN  /\ G' = r.G
           /\ entities' = r.entities
           /\ relationships' = r.relationships
           /\ ret' = [op |-> "generate_from_prompt",
                      exc |-> IF saves THEN s.exc ELSE r.exc, value |-> << >>]
           /\ erd_schemas' = IF saves THEN s.erd_schemas ELSE erd_schemas
           /\ current_schema_id' = IF saves /\ s.exc = "None" THEN SchemaId(s.value)
                                   ELSE current_schema_id
    /\ generated_from' = prompt
    /\ ops' = ops + 1
    /\ UNCHANGED <<script, database_url>>

\* main.py: save_current_schema returns None on an empty model and else what
\* save_schema returns, which it also stores in current_schema_id
SaveCurrentSchema(failure) ==
    /\ script = "main.py"
    /\ (entities # << >> /\ database_url) => Len(erd_schemas) < MaxSchemas
    /\ IF entities = << >>
       THEN /\ ret' = [op |-> "save_current_schema", exc |-> "None", value |-> << >>]
            /\ UNCHANGED <<erd_schemas, current_schema_id>>
       ELSE LET s == save_schema(entities, relationships, failure)
            IN  /\ erd_schemas' = s.erd_schemas
                /\ current_schema_id' = IF s.exc = "None" THEN SchemaId(s.value)
                                        ELSE current_schema_id
                /\ ret' = [op |-> "save_current_schema", exc |-> s.exc, value |-> s.value]
    /\ UNCHANGED <<G, entities, relationships, ops, script, generated_from, database_url>>

\* main.py: load_from_database returns False when load_schema returns None;
\* else it clears, ingests the stored schema and returns True.  A KeyError
\* of the ingestion leaves what was rebuilt so far.
LoadFromDatabase(schema_id, failure) ==
    /\ script = "main.py"
    /\ LET schema_data == load_schema(schema_id, failure)
       IN  IF schema_data.exc # "None"
           THEN /\ ret' = [op |-> "load_from_database", exc |-> schema_data.exc,
                           value |-> << >>]
                /\ UNCHANGED <<G, entities, relationships, current_schema_id>>
           ELSE IF schema_data.value = << >>
           THEN /\ ret' = [op |-> "load_from_database", exc |-> "None",
                           value |-> <<[ok |-> FALSE]>>]
                /\ UNCHANGED <<G, entities, relationships, current_schema_id>>
           ELSE LET r == Ingest(EmptyGraph, << >>, << >>, schema_data.value[1].schema_data)
                IN  /\ G' = r.G
                    /\ entities' = r.entities
                    /\ relationships' = r.relationships
                    /\ current_schema_id' = IF r.exc = "None" THEN schema_id
                                            ELSE current_schema_id
                    /\ ret' = [op |-> "load_from_database", exc |-> r.exc,
                               value |-> IF r.exc = "None" THEN <<[ok |-> TRUE]>> ELSE << >>]
    /\ UNCHANGED <<ops, script, generated_from, database_url, erd_schemas>>

\* Visualize gone wrong: it clears the graph it has drawn
VisualizeClears ==
    /\ ret' = [op |-> "visualize", exc |-> "None", value |-> << >>]
    /\ G' = EmptyGraph
    /\ UNCHANGED <<entities, relationships, ops, session>>

\* visualize of either script reads G and draws; it returns None
Visualize ==
    /\ ret' = [op |-> "visualize", exc |-> "None", value |-> << >>]
    /\ UNCHANGED <<G, entities, relationships, ops, session>>

\* main.py: print_summary reads attr['name'] of every attribute
PrintSummary ==
    /\ script = "main.py"
    /\ ret' = [op |-> "print_summary",
               exc |-> IF \E attributes \in StoredAttrLists :
                             \E i \in 1..Len(attributes) : "name" \notin DOMAIN attributes[i]
                       THEN "KeyError" ELSE "None",
               value |-> << >>]
    /\ UNCHANGED <<G, entities, relationships, ops, session>>

\* erd.py: view_summary returns at once on an empty model, else it reads
\* a['name'] and a['type'] of every attribute
ViewSummary ==
    /\ script = "erd.py"
    /\ ret' = [op |-> "view_summary",
               exc |-> IF /\ entities # << >>
                          /\ \E attributes \in StoredAttrLists :
                                \E i \in 1..Len(attributes) :
                                    {"name", "type"} \ DOMAIN attributes[i] # {}
                       THEN "KeyError" ELSE "None",
               value |-> << >>]
    /\ UNCHANGED <<G, entities, relationships, ops, session>>

\* main.py: generate_sample_data returns the INSERT statements of its three
\* records for every entity it knows by name, in entity order
GenerateSampleData ==
    /\ script = "main.py"
    /\ LET known == SelectSeq(entities, LAMBDA e : e.key \in SampleNames)
       IN  ret' = [op |-> "generate_sample_data", exc |-> "None",
                   value |-> [k \in 1..(3 * Len(known)) |->
                                 [table |-> known[(k + 2) \div 3].key,
                                  record |-> ((k - 1) % 3) + 1]]]
    /\ UNCHANGED <<G, entities, relationships, ops, session>>

SessionNext ==
    \/ /\ ops < MaxSessionOps
       /\ \E name \in EntityNames, attributes \in SessionAttrLists :
             AddEntity(name, attributes)
    \/ /\ ops < MaxSessionOps
       /\ \E name \in RelNames, ents \in SessionPartLists, attributes \in RelAttrLists :
             AddRelationship(name, ents, attributes)
    \/ \E t \in Topics : GenerateFromAi(t)
    \/ \E prompt \in Topics, save_to_db \in BOOLEAN, failure \in DbFailures :
          GenerateFromPrompt(prompt, save_to_db, failure)
    \/ \E failure \in DbFailures : SaveCurrentSchema(failure)
    \/ \E schema_id \in 1..MaxSchemas, failure \in DbFailures :
          LoadFromDatabase(schema_id, failure)
    \/ Visualize
    \/ PrintSummary
    \/ ViewSummary
    \/ GenerateSampleData
    \/ (script = "main.py" /\ ExportToSql)

SpecSession == SessionInit /\ [][SessionNext]_vars

(***************************************************************************)
(* erd.py's interactive menu (interactive_input): each choice is one       *)
(* action, its inputs the lines typed at the prompts.  ret.value holds the *)
(* message the handler printed last.                                       *)
(***************************************************************************)
RECURSIVE LStrip(_)
LStrip(s) == IF s # "" /\ CharAt(s, 1) = " " THEN LStrip(SubSeq(s, 2, Len(s))) ELSE s

RECURSIVE RStrip(_)
RStrip(s) ==
    IF s # "" /\ CharAt(s, Len(s)) = " " THEN RStrip(SubSeq(s, 1, Len(s) - 1)) ELSE s

\* input(...).strip()
str_strip(s) == RStrip(LStrip(s))

\* input(...).strip().lower() == 'y'
Yes(answer) == str_lower(str_strip(answer)) = "y"

\* lines typed at "Enter entity name" / "Enter relationship name"
TypedEntityNames == {"", "Book", " Author"}
TypedRelNames == {" ", "Writes", "Book"}

\* the lines typed for one attribute: its name, type and the two y/n answers
TypedAttrs ==
    { [name |-> "id", type |-> "INT", is_key |-> "Y", is_derived |-> "n"],
      [name |-> " title ", type |-> "", is_key |-> "", is_derived |-> "y"] }

TypedRelAttrs == { [name |-> "since", type |-> ""] }

\* a typed list holds the lines before the empty one that ends its loop
TypedAttrLists == SeqsUpTo(TypedAttrs, MaxAttrs)
TypedRelAttrLists == SeqsUpTo(TypedRelAttrs, MaxRelAttrs)

\* the names typed at "Entity name" of a relationship: none, one, one twice,
\* two, and two among a name that is no entity
TypedPartLists ==
    { << >>, <<"Book">>, <<"Book", " Book">>, <<"Book", "Author ">>,
      <<"Author", "Ghost">>, <<"Ghost", "Author", "Book">> }

MenuChoices == {"1", "2", "3", "4", "6", ""}

\* what the console shows after one turn: the lines typed and the message printed
Printed(op, typed, message) ==
    [op |-> op, exc |-> "None", value |-> <<[printed |-> message] @@ typed>>]

\* the attribute loop of _add_entity_interactive: a name typed before is
\* skipped, an empty type is VARCHAR
RECURSIVE EntityAttrInputLoop(_, _, _)
EntityAttrInputLoop(typed, i, attributes) ==
    IF i > Len(typed) THEN attributes
    ELSE LET attr_name == str_strip(typed[i].name)
             attr_type == IF str_strip(typed[i].type) = "" THEN "VARCHAR"
                          ELSE str_strip(typed[i].type)
         IN  IF \E k \in 1..Len(attributes) : attributes[k].name = attr_name
             THEN EntityAttrInputLoop(typed, i + 1, attributes)
             ELSE EntityAttrInputLoop(typed, i + 1,
                      Append(attributes,
                             [name |-> attr_name, type |-> attr_type,
                              is_key |-> Yes(typed[i].is_key),
                              is_derived |-> Yes(typed[i].is_derived)]))

\* the participant loop of _add_relationship_interactive: a name that is no
\* entity, or that the list has already, is refused
RECURSIVE ParticipantInputLoop(_, _, _)
ParticipantInputLoop(typed, i, entities_in_rel) ==
    IF i > Len(typed) THEN entities_in_rel
    ELSE LET entity_name == str_strip(typed[i])
         IN  IF ~Has(entities, entity_name)
                \/ \E k \in 1..Len(entities_in_rel) : entities_in_rel[k] = entity_name
             THEN ParticipantInputLoop(typed, i + 1, entities_in_rel)
             ELSE ParticipantInputLoop(typed, i + 1, Append(entities_in_rel, entity_name))

\* the attribute loop of _add_relationship_interactive checks no name
RelAttrInput(typed) ==
    [i \in 1..Len(typed) |->
        [name |-> str_strip(typed[i].name),
         type |-> IF str_strip(typed[i].type) = "" THEN "VARCHAR" ELSE str_strip(typed[i].type)]]

\* AddEntityInteractive gone wrong: a name in use is not refused
AddEntityInteractiveOverwrites(typed_name, typed_attrs) ==
    LET entity_name == str_strip(typed_name)
        attributes == EntityAttrInputLoop(typed_attrs, 1, << >>)
        op == "_add_entity_interactive"
        typed == [entity_name |-> typed_name, attr_lines |-> typed_attrs]
    IN  /\ script = "erd.py"
        /\ IF entity_name = ""
           THEN /\ ret' = Printed(op, typed, "Entity name cannot be empty.")
                /\ UNCHANGED <<G, entities, ops>>
           ELSE IF attributes = << >>
           THEN /\ ret' = Printed(op, typed, "No attributes added. Entity not created.")
                /\ UNCHANGED <<G, entities, ops>>
           ELSE /\ ops < MaxOps
                /\ LET r == add_entity(G, entities, entity_name, attributes)
                   IN  /\ G' = r.G
                       /\ entities' = r.entities
                       /\ ret' = [Printed(op, typed, "Added entity.") EXCEPT !.exc = r.exc]
                /\ ops' = ops + 1
        /\ UNCHANGED <<relationships, session>>

\* choice 1
AddEntityInteractive(typed_name, typed_attrs) ==
    LET entity_name == str_strip(typed_name)
        attributes == EntityAttrInputLoop(typed_attrs, 1, << >>)
        op == "_add_entity_interactive"
        typed == [entity_name |-> typed_name, attr_lines |-> typed_attrs]
    IN  /\ script = "erd.py"
        /\ IF entity_name = ""
           THEN /\ ret' = Printed(op, typed, "Entity name cannot be empty.")
                /\ UNCHANGED <<G, entities, ops>>
           ELSE IF Has(entities, entity_name)
           THEN /\ ret' = Printed(op, typed, "Entity already exists.")
                /\ UNCHANGED <<G, entities, ops>>
           ELSE IF attributes = << >>
           THEN /\ ret' = Printed(op, typed, "No attributes added. Entity not created.")
                /\ UNCHANGED <<G, entities, ops>>
           ELSE /\ ops < MaxOps
                /\ LET r == add_entity(G, entities, entity_name, attributes)
                   IN  /\ G' = r.G
                       /\ entities' = r.entities
                       /\ ret' = [Printed(op, typed, "Added entity.") EXCEPT !.exc = r.exc]
                /\ ops' = ops + 1
        /\ UNCHANGED <<relationships, session>>

\* choice 2; the attributes are asked for only after a 'y'
AddRelationshipInteractive(typed_name, typed_parts, add_attrs, typed_attrs) ==
    LET rel_name == str_strip(typed_name)
        entities_in_rel == ParticipantInputLoop(typed_parts, 1, << >>)
        attributes == IF Yes(add_attrs) THEN RelAttrInput(typed_attrs) ELSE << >>
        op == "_add_relationship_interactive"
        typed == [rel_name |-> typed_name, entity_lines |-> typed_parts,
                  add_attrs |-> add_attrs, rel_attr_lines |-> typed_attrs]
    IN  /\ script = "erd.py"
        /\ IF Len(entities) < 1
           THEN /\ ret' = Printed(op, typed, "You must add at least one entity before creating a relationship.")
                /\ UNCHANGED <<G, relationships, ops>>
           ELSE IF rel_name = ""
           THEN /\ ret' = Printed(op, typed, "Relationship name cannot be empty.")
                /\ UNCHANGED <<G, relationships, ops>>
           ELSE IF Has(relationships, rel_name)
           THEN /\ ret' = Printed(op, typed, "Relationship already exists.")
                /\ UNCHANGED <<G, relationships, ops>>
           ELSE IF Len(entities_in_rel) < 2
           THEN /\ ret' = Printed(op, typed, "A relationship requires at least two distinct entities.")
                /\ UNCHANGED <<G, relationships, ops>>
           ELSE /\ ops < MaxOps
                /\ LET r == add_relationship(G, relationships, rel_name, entities_in_rel,
                                             attributes)
                   IN  /\ G' = r.G
                       /\ relationships' = r.relationships
                       /\ ret' = [Printed(op, typed, "Added relationship.") EXCEPT !.exc = r.exc]
                /\ ops' = ops + 1
        /\ UNCHANGED <<entities, session>>

\* a line at "Enter your choice (1-5)" that is none of 1 to 5
InvalidChoice(choice) ==
    /\ script = "erd.py"
    /\ str_strip(choice) \notin {"1", "2", "3", "4", "5"}
    /\ ret' = Printed("interactive_input", [choice |-> choice], "Invalid choice. Please try again.")
    /\ UNCHANGED <<G, entities, relationships, ops, session>>

InteractiveInit ==
    /\ G = EmptyGraph
    /\ entities = << >>
    /\ relationships = << >>
    /\ ret = [op |-> "__init__", exc |-> "None", value |-> << >>]
    /\ ops = 0
    /\ script = "erd.py"
    /\ generated_from = ""
    /\ database_url = FALSE
    /\ erd_schemas = << >>
    /\ current_schema_id = 0

\* interactive_input: one turn of its loop
InteractiveNext ==
    \E choice \in MenuChoices :
        \/ /\ str_strip(choice) = "1"
           /\ \E typed_name \in TypedEntityNames, typed_attrs \in TypedAttrLists :
                 AddEntityInteractive(typed_name, typed_attrs)
        \/ /\ str_strip(choice) = "2"
           /\ \E typed_name \in TypedRelNames, typed_parts \in TypedPartLists,
                 add_attrs \in {"n", " Y"} :
                 \E typed_attrs \in (IF Yes(add_attrs) THEN TypedRelAttrLists ELSE {<< >>}) :
                 AddRelationshipInteractive(typed_name, typed_parts, add_attrs, typed_attrs)
        \/ (str_strip(choice) = "3" /\ ViewSummary)
        \/ (str_strip(choice) = "4" /\ Visualize)
        \/ InvalidChoice(choice)

SpecInteractive == InteractiveInit /\ [][InteractiveNext]_vars

(***************************************************************************)
(* Properties.                                                             *)
(***************************************************************************)
\* C1: add_entity with a name that an entity already uses fails with
\* DuplicateNameError and leaves the first entity and the graph as they were.
C1_DuplicateEntityRejected ==
    [][\A name \in EntityNames, attributes \in EntityAttrLists :
          (Has(entities, name) /\ AddEntity(name, attributes))
          => /\ ret'.exc = "DuplicateNameError"
             /\ entities' = entities
             /\ G' = G]_vars

\* C2: add_relationship with a participant that is no registered entity fails
\* with UnknownEntityError and adds nothing: relationships and the graph stay
\* as they were.
C2_UnknownParticipantRejected ==
    [][\A name \in RelNames, ents \in PartLists, attributes \in RelAttrLists :
          ((\E i \in 1..Len(ents) : ~Has(entities, ents[i]))
           /\ AddRelationship(name, ents, attributes))
          => /\ ret'.exc = "UnknownEntityError"
             /\ relationships' = relationships
             /\ G' = G]_vars

\* C3: every stored relationship has at least 2 distinct participants.
C3_AtLeastTwoDistinctParticipants ==
    \A i \in 1..Len(relationships) :
        Cardinality(Range(relationships[i].value.entities)) >= 2

\* C4: an add_entity or add_relationship call that fails leaves entities,
\* relationships and the graph exactly as they were before the call.
C4_NoPartialMutation ==
    [][(ret'.op \in {"add_entity", "add_relationship"} /\ ops' # ops /\ ret'.exc # "None")
          => /\ entities' = entities
             /\ relationships' = relationships
             /\ G' = G]_vars

\* C5: no name is both an entity and a relationship, so no graph node stands
\* for an entity and a relationship at once.
C5_NamesUniqueAcrossModel ==
    \A i \in 1..Len(entities), j \in 1..Len(relationships) :
        entities[i].key # relationships[j].key

\* C6: within every stored attribute list the attribute names are non-empty
\* and pairwise distinct.
C6_AttributeNamesUnique ==
    \A attributes \in StoredAttrLists :
        LET named == { i \in 1..Len(attributes) : "name" \in DOMAIN attributes[i] }
        IN  /\ \A i \in named : attributes[i].name # ""
            /\ \A i, j \in named : i # j => attributes[i].name # attributes[j].name

(***************************************************************************)
(* Properties of export_to_sql, read off the statements the last call      *)
(* returned.                                                               *)
(***************************************************************************)
Exported == ret.op = "export_to_sql" /\ ret.exc = "None"

\* the key attributes an entity declares, in declaration order
DeclaredKeys(e) == SelectSeq(Get(entities, e), LAMBDA a : Truthy(a, "is_key"))

NamesOf(attributes) == [i \in 1..Len(attributes) |-> attributes[i].name]

ClausesOfKind(stmt, kind) == SelectSeq(stmt.clauses, LAMBDA c : c.kind = kind)

\* a descriptor export_to_sql cannot read: it lacks a name or a type
Unreadable(attr) == {"name", "type"} \ DOMAIN attr # {}

\* what makes export_to_sql raise: an unreadable entity attribute, or a binary
\* relationship with an unregistered participant or an unreadable attribute
ExportHazard ==
    \/ \E i \in 1..Len(entities) : \E a \in Range(entities[i].value) : Unreadable(a)
    \/ \E j \in 1..Len(relationships) :
          LET r == relationships[j].value
          IN  /\ Len(r.entities) = 2
              /\ \/ \E p \in Range(r.entities) : ~Has(entities, p)
                 \/ \E a \in Range(r.attributes) : Unreadable(a)

\* C7: the i-th statement is the i-th entity's table; it has a PRIMARY KEY
\* clause iff the entity declares a key attribute, and the clause lists the
\* key attribute names in declaration order.  The export never raises for
\* want of a key: when it raises, an export hazard is present.
C7_PrimaryKeyClause ==
    /\ Exported =>
          /\ Len(ret.value) >= Len(entities)
          /\ \A i \in 1..Len(entities) :
                LET stmt == ret.value[i]
                    keys == NamesOf(DeclaredKeys(entities[i].key))
                    pks == ClausesOfKind(stmt, "primary_key")
                IN  /\ stmt.table = entities[i].key
                    /\ keys # << >> => (Len(pks) = 1 /\ pks[1].cols = keys)
                    /\ keys = << >> => pks = << >>
    /\ (ret.op = "export_to_sql" /\ ret.exc # "None") => ExportHazard

\* C7's case: an export that returned, over an entity with a composite key
\* and an entity with attributes and no key
C7_Witness ==
    /\ Exported
    /\ \E i \in 1..Len(entities) :
          LET keys == NamesOf(DeclaredKeys(entities[i].key))
          IN  Len(keys) >= 2 /\ keys[1] # keys[2]
    /\ \E i \in 1..Len(entities) :
          entities[i].value # << >> /\ DeclaredKeys(entities[i].key) = << >>

\* exactly 2 participants and at least one relationship attribute
Qualifies(r) == Len(r.entities) = 2 /\ Len(r.attributes) >= 1

\* C8: after the entity tables come the join tables, one for a relationship
\* iff it has exactly 2 participants and at least one attribute, so the
\* statements number the entities plus the qualifying relationships.
C8_JoinTableGate ==
    Exported =>
        LET n == Len(entities)
            qualifying == { j \in 1..Len(relationships) : Qualifies(relationships[j].value) }
        IN  /\ Len(ret.value) = n + Cardinality(qualifying)
            /\ \A j \in 1..Len(relationships) :
                  (j \in qualifying) <=>
                  (\E k \in (n + 1)..Len(ret.value) :
                        ret.value[k].table = relationships[j].key)

\* C8's case: an export that returned, over a relationship that qualifies and
\* one with attributes whose participant count is not 2
C8_Witness ==
    /\ Exported
    /\ \E j \in 1..Len(relationships) : Qualifies(relationships[j].value)
    /\ \E j \in 1..Len(relationships) :
          /\ Len(relationships[j].value.entities) # 2
          /\ relationships[j].value.attributes # << >>

\* the join columns C9 asks of a participant: its whole declared primary key,
\* or <lowercased name>_id INT when it declares no key
JoinColumns(e) ==
    IF DeclaredKeys(e) = << >> THEN <<Column(Lower(e) \o "_id", "INT")>>
    ELSE [i \in 1..Len(DeclaredKeys(e)) |->
             Column(DeclaredKeys(e)[i].name, DeclaredKeys(e)[i].type)]

\* the join tables among the statements the last export returned
JoinTables == SubSeq(ret.value, Len(entities) + 1, Len(ret.value))

\* a model the validating operations of the specification would have built:
\* unique names, unique attribute names and relationships over at least two
\* distinct registered entities
WellFormed ==
    /\ C3_AtLeastTwoDistinctParticipants
    /\ C5_NamesUniqueAcrossModel
    /\ C6_AttributeNamesUnique
    /\ \A j \in 1..Len(relationships) :
          \A p \in Range(relationships[j].value.entities) : Has(entities, p)

\* C9: the columns of every join table are the join columns of participant 1,
\* those of participant 2, then the relationship's attributes (stated of the
\* well-formed models alone).
C9_JoinColumnsArePrimaryKeys ==
    (Exported /\ WellFormed) =>
        \A j \in 1..Len(relationships) :
            LET r == relationships[j].value
            IN  Qualifies(r) =>
                  \A k \in 1..Len(JoinTables) :
                      JoinTables[k].table = relationships[j].key =>
                          ClausesOfKind(JoinTables[k], "column") =
                              JoinColumns(r.entities[1]) \o JoinColumns(r.entities[2])
                              \o [i \in 1..Len(r.attributes) |->
                                     Column(r.attributes[i].name, r.attributes[i].type)]

\* a relationship with at least one attribute between two keyed entities
BetweenKeyedEntities(r) ==
    /\ Qualifies(r)
    /\ \A p \in Range(r.entities) : Has(entities, p) /\ DeclaredKeys(p) # << >>

\* C10: such a relationship gets exactly one join table; its columns are the
\* two participants' key columns (the first key attribute each declares, with
\* its type) followed by the relationship's attributes, its PRIMARY KEY is
\* the pair of key columns, and its two FOREIGN KEY clauses reference
\* (participant 1, its key column) and (participant 2, its key column).
C10_JoinTableShape ==
    Exported =>
        \A j \in 1..Len(relationships) :
            LET r == relationships[j].value
                mine == SelectSeq(JoinTables, LAMBDA t : t.table = relationships[j].key)
            IN  BetweenKeyedEntities(r) =>
                  /\ Len(mine) = 1
                  /\ LET key1 == DeclaredKeys(r.entities[1])[1]
                         key2 == DeclaredKeys(r.entities[2])[1]
                         cols == ClausesOfKind(mine[1], "column")
                         pks == ClausesOfKind(mine[1], "primary_key")
                         fks == ClausesOfKind(mine[1], "foreign_key")
                     IN  /\ Len(cols) = 2 + Len(r.attributes)
                         /\ cols[1] = [kind |-> "column", name |-> key1.name, type |-> key1.type]
                         /\ cols[2] = [kind |-> "column", name |-> key2.name, type |-> key2.type]
                         /\ \A i \in 1..Len(r.attributes) :
                               /\ cols[2 + i].name = r.attributes[i].name
                               /\ cols[2 + i].type = r.attributes[i].type
                         /\ Len(pks) = 1 /\ pks[1].cols = <<key1.name, key2.name>>
                         /\ Len(fks) = 2
                         /\ fks[1].col = key1.name /\ fks[1].table = r.entities[1]
                         /\ fks[1].ref = key1.name
                         /\ fks[2].col = key2.name /\ fks[2].table = r.entities[2]
                         /\ fks[2].ref = key2.name
                         /\ mine[1].clauses = cols \o pks \o fks

\* C10's case: an export that returned, over a relationship with an attribute
\* between two different keyed entities
C10_Witness ==
    /\ Exported
    /\ \E j \in 1..Len(relationships) :
          /\ BetweenKeyedEntities(relationships[j].value)
          /\ relationships[j].value.entities[1] # relationships[j].value.entities[2]

(***************************************************************************)
(* Properties of the graph G.                                              *)
(***************************************************************************)
NodeType(n) == DictGet(G.nodes[n], "node_type", "untagged")

EdgeType(e) == DictGet(G.edges[e], "edge_type", "untagged")

NodesOfType(t) == { n \in DOMAIN G.nodes : NodeType(n) = t }

EdgesOfType(t) == { e \in DOMAIN G.edges : EdgeType(e) = t }

RECURSIVE SumLen(_)
SumLen(lists) == IF lists = << >> THEN 0 ELSE Len(Head(lists)) + SumLen(Tail(lists))

\* A, B and P of C11: the attributes the entities carry, those the
\* relationships carry, and the participants the relationships list
EntityAttrCount == SumLen([i \in 1..Len(entities) |-> entities[i].value])

RelAttrCount == SumLen([i \in 1..Len(relationships) |-> relationships[i].value.attributes])

ParticipantCount == SumLen([i \in 1..Len(relationships) |-> relationships[i].value.entities])

\* every stored descriptor has a name
AllNamed == \A attributes \in StoredAttrLists : \A a \in Range(attributes) : "name" \in DOMAIN a

\* C11: the graph has one entity node per entity, one attribute node and one
\* ownership edge per stored attribute, one relationship node per
\* relationship and one participation edge per entry of a participant list
\* (stated of the well-formed models whose graph holds nothing of a replaced
\* entity or relationship).
C11_GraphCounts ==
    (WellFormed /\ AllNamed /\ G = Project(entities, relationships)) =>
        /\ Cardinality(NodesOfType("entity")) = Len(entities)
        /\ Cardinality(NodesOfType("attribute")) = EntityAttrCount + RelAttrCount
        /\ Cardinality(NodesOfType("relationship")) = Len(relationships)
        /\ Cardinality(EdgesOfType("participation")) = ParticipantCount
        /\ Cardinality(EdgesOfType("attribute")) = EntityAttrCount + RelAttrCount

\* the names of the relationships that get a join table, in stored order
QualifyingNames ==
    LET q == SelectSeq(relationships, LAMBDA r : Qualifies(r.value))
    IN  [k \in 1..Len(q) |-> q[k].key]

\* C17: export_to_sql emits the entity tables in entity insertion order, each
\* with its columns in attribute insertion order, and after them the join
\* tables in relationship insertion order.
C17_ExportOrder ==
    Exported =>
        /\ Len(ret.value) >= Len(entities)
        /\ \A i \in 1..Len(entities) :
              /\ ret.value[i].table = entities[i].key
              /\ NamesOf(ClausesOfKind(ret.value[i], "column")) = NamesOf(entities[i].value)
        /\ [k \in 1..Len(JoinTables) |-> JoinTables[k].table] = QualifyingNames

\* C17's case: an export that returned two entity tables, one of them with
\* two differently named columns, and a join table after them
C17_Witness ==
    /\ Exported
    /\ Len(entities) = 2
    /\ \E i \in 1..2 :
          /\ Len(entities[i].value) = 2
          /\ entities[i].value[1].name # entities[i].value[2].name
    /\ QualifyingNames # << >>

\* C18: export_to_sql does not raise on a well-formed model whose attributes
\* all have a name: it returns the statements, and an attribute given without
\* a type is exported as a VARCHAR column.
C18_ExportNeverFails ==
    (ret.op = "export_to_sql" /\ WellFormed /\ AllNamed) =>
        /\ ret.exc = "None"
        /\ \A i \in 1..Len(entities) : \A j \in 1..Len(entities[i].value) :
              "type" \notin DOMAIN entities[i].value[j]
              => ClausesOfKind(ret.value[i], "column")[j].type = "VARCHAR"

\* C19: every node of G is tagged entity, attribute or relationship and every
\* edge attribute or participation; an attribute edge runs from an entity or
\* relationship node to an attribute node, a participation edge from an
\* entity node to a relationship node.
C19_GraphTyping ==
    /\ \A n \in DOMAIN G.nodes : NodeType(n) \in {"entity", "attribute", "relationship"}
    /\ \A e \in DOMAIN G.edges :
          /\ EdgeType(e) \in {"attribute", "participation"}
          /\ EdgeType(e) = "attribute" =>
                /\ NodeType(e[1]) \in {"entity", "relationship"}
                /\ NodeType(e[2]) = "attribute"
          /\ EdgeType(e) = "participation" =>
                /\ NodeType(e[1]) = "entity"
                /\ NodeType(e[2]) = "relationship"

\* C20: G is exactly the graph projected from the entities and relationships
\* now stored: the same nodes with the same data and the same edges (stated
\* of the models whose attributes all have a name, which project in full).
C20_GraphIsProjection == AllNamed => G = Project(entities, relationships)

\* the style an edge is drawn in: visualize reads d.get('style', 'solid')
EdgeStyle(e) == DictGet(G.edges[e], "style", "solid")

\* C15: for every entry p of the participant list of a relationship R there
\* is a participation edge p -> R and no edge R -> p; every attribute of R has
\* an attribute node with an ownership edge R -> node that is solid, and the
\* node is neither key nor derived whatever the descriptor says (stated of
\* the models whose attributes all have a name).
C15_RelationshipProjection ==
    AllNamed =>
        \A j \in 1..Len(relationships) :
            LET R == relationships[j].key
                r == relationships[j].value
            IN  /\ \A p \in Range(r.entities) :
                      /\ <<p, R>> \in DOMAIN G.edges
                      /\ EdgeType(<<p, R>>) = "participation"
                      /\ <<R, p>> \notin DOMAIN G.edges
                /\ \A a \in Range(r.attributes) :
                      LET n == AttrNode(R, a)
                      IN  /\ n \in DOMAIN G.nodes
                          /\ NodeType(n) = "attribute"
                          /\ <<R, n>> \in DOMAIN G.edges
                          /\ EdgeType(<<R, n>>) = "attribute"
                          /\ EdgeStyle(<<R, n>>) = "solid"
                          /\ ~Truthy(G.nodes[n], "is_key")
                          /\ ~Truthy(G.nodes[n], "is_derived")

\* how erd.py's visualize draws an edge: the edges whose style is 'solid' (the
\* default) solid, those whose style is 'dotted' dashed, any other not at all
DrawnStyle(e) ==
    IF EdgeStyle(e) = "solid" THEN "solid"
    ELSE IF EdgeStyle(e) = "dotted" THEN "dashed" ELSE "none"

\* C14: every stored entity attribute that has a name has its attribute node,
\* reached by exactly one ownership edge, which comes from the owning entity
\* and is drawn dashed iff the attribute is derived, else solid; the node
\* carries the attribute's is_key and is_derived flags and the label
\* "<name>\n(<type>)".
C14_EntityAttributeProjection ==
    \A i \in 1..Len(entities) :
        \A a \in Range(entities[i].value) :
            "name" \in DOMAIN a =>
                LET E == entities[i].key
                    n == AttrNode(E, a)
                IN  /\ n \in DOMAIN G.nodes
                    /\ { e \in EdgesOfType("attribute") : e[2] = n } = { <<E, n>> }
                    /\ DrawnStyle(<<E, n>>) = (IF Truthy(a, "is_derived") THEN "dashed" ELSE "solid")
                    /\ Truthy(G.nodes[n], "is_key") = Truthy(a, "is_key")
                    /\ Truthy(G.nodes[n], "is_derived") = Truthy(a, "is_derived")
                    /\ DictGet(G.nodes[n], "display_name", "") = DisplayName(a)

(***************************************************************************)
(* Properties of a session.                                                *)
(***************************************************************************)
GenerateOps == {"generate_from_ai", "generate_from_prompt"}

\* C12: generating again from the topic just generated from, with nothing
\* done in between, rebuilds the same graph, node for node and edge for edge
\* with the same data, and the same entities and relationships.
C12_RegenerationSameGraph ==
    [][\A t \in Topics :
          (/\ ret.op \in GenerateOps
           /\ ret.exc = "None"
           /\ generated_from = t
           /\ (GenerateFromAi(t) \/ \E save_to_db \in BOOLEAN, failure \in DbFailures :
                                   GenerateFromPrompt(t, save_to_db, failure)))
          => /\ G' = G
             /\ entities' = entities
             /\ relationships' = relationships]_vars

\* C12's case: the second of two calls has generated, and the model is what
\* one generation from that topic builds from nothing
C12_Witness ==
    /\ ops = 2
    /\ ret.op \in GenerateOps
    /\ Len(relationships) = 2
    /\ LET schema == IF script = "erd.py" THEN erd_call_ai_simulation(generated_from)
                     ELSE main_call_ai_simulation(generated_from)
           once == Ingest(EmptyGraph, << >>, << >>, schema)
       IN  <<G, entities, relationships>> = <<once.G, once.entities, once.relationships>>

ReaderOps ==
    {"visualize", "view_summary", "print_summary", "export_to_sql", "generate_sample_data"}

\* C13: a call of visualize, view_summary, print_summary, export_to_sql or
\* generate_sample_data leaves entities, relationships and the graph as they
\* were, whether it returns or raises.
C13_ReadersDoNotMutate ==
    [][(ret'.op \in ReaderOps /\ ret' # ret)
          => UNCHANGED <<G, entities, relationships>>]_vars

\* C13's case: a reader has run on a model that holds a relationship
C13_Witness ==
    /\ ret.op \in ReaderOps
    /\ relationships # << >>
    /\ DOMAIN G.edges # {}

\* a dict as the set of its items, whatever their order
AsMap(d) == { d[i] : i \in 1..Len(d) }

\* C16: loading the schema that save_current_schema has just saved, by the
\* id it returned, gives back the entities with their attribute lists and
\* the relationships with their participant and attribute lists, and a graph
\* equal to the one before (stated of the models whose attributes all have a
\* name).
C16_SaveLoadRoundTrip ==
    [][\A schema_id \in 1..MaxSchemas :
          (/\ AllNamed
           /\ ret.op = "save_current_schema"
           /\ ret.value = <<[schema_id |-> schema_id]>>
           /\ \E failure \in DbFailures : LoadFromDatabase(schema_id, failure))
          => /\ AsMap(entities') = AsMap(entities)
             /\ AsMap(relationships') = AsMap(relationships)
             /\ G' = G]_vars

\* what one generation from topic t builds from nothing
Generated(t) ==
    Ingest(EmptyGraph, << >>, << >>,
           IF script = "erd.py" THEN erd_call_ai_simulation(t) ELSE main_call_ai_simulation(t))

\* C21: after a generation from a topic, entities, relationships and the
\* graph are exactly what the selected template builds from nothing, whatever
\* the generator held before the call.
C21_RegenerationClears ==
    [][\A t \in Topics :
          (GenerateFromAi(t) \/ \E save_to_db \in BOOLEAN, failure \in DbFailures :
                                   GenerateFromPrompt(t, save_to_db, failure))
          => /\ G' = Generated(t).G
             /\ entities' = Generated(t).entities
             /\ relationships' = Generated(t).relationships]_vars

\* the templates of the script that runs
Templates == IF script = "erd.py" THEN erd_erd_templates ELSE main_erd_templates

\* template i has the highest keyword score for topic t, and no template
\* declared before it scores as high
EarliestBest(i, t) ==
    LET score(j) == Score(Templates[j].value.keywords, str_lower(t))
    IN  /\ \A j \in 1..Len(Templates) : score(j) <= score(i)
        /\ \A j \in 1..(i - 1) : score(j) < score(i)

NamesIn(d) == [i \in 1..Len(d) |-> d[i].key]

\* C22: the schema a generation ingests into an empty generator is one of the
\* canned templates of the script, the earliest declared among those of the
\* highest keyword score for the topic, also when no keyword matches.
C22_ResolverPicksCannedTemplate ==
    [][\A t \in Topics :
          (/\ entities = << >> /\ relationships = << >>
           /\ (GenerateFromAi(t) \/ \E save_to_db \in BOOLEAN, failure \in DbFailures :
                                   GenerateFromPrompt(t, save_to_db, failure)))
          => \E i \in 1..Len(Templates) :
                /\ EarliestBest(i, t)
                /\ entities' = Templates[i].value.schema.entities
                /\ NamesIn(relationships') = NamesIn(Templates[i].value.schema.relationships)]_vars

\* the names of a list of attribute descriptors are there and differ pairwise
DistinctNames(attributes) ==
    /\ \A i \in 1..Len(attributes) : "name" \in DOMAIN attributes[i]
    /\ \A i, j \in 1..Len(attributes) :
          attributes[i].name = attributes[j].name => i = j

EntitiesValid ==
    \A i \in 1..Len(entities) :
        /\ Len(entities[i].value) >= 1
        /\ DistinctNames(entities[i].value)

RelationshipsValid ==
    \A i \in 1..Len(relationships) :
        LET ents == relationships[i].value.entities
        IN  /\ Len(ents) >= 2
            /\ \A j, k \in 1..Len(ents) : ents[j] = ents[k] => j = k
            /\ \A j \in 1..Len(ents) : Has(entities, ents[j])

\* the inputs the menu is to refuse, judged on what was typed
RejectedEntityInput(typed_name, typed_attrs) ==
    \/ str_strip(typed_name) = ""
    \/ Has(entities, str_strip(typed_name))
    \/ \A i \in 1..Len(typed_attrs) : str_strip(typed_attrs[i].name) = ""

RejectedRelInput(typed_name, typed_parts) ==
    \/ str_strip(typed_name) = ""
    \/ Has(relationships, str_strip(typed_name))
    \/ Cardinality({ str_strip(typed_parts[i]) : i \in 1..Len(typed_parts) }
                   \cap { entities[i].key : i \in 1..Len(entities) }) < 2

\* the turn that ends in the next state, by what was typed in it
RejectedUnchanged ==
    LET typed == ret'.value[1]
        refused ==
            \/ /\ ret'.op = "_add_entity_interactive"
               /\ RejectedEntityInput(typed.entity_name, typed.attr_lines)
            \/ /\ ret'.op = "_add_relationship_interactive"
               /\ RejectedRelInput(typed.rel_name, typed.entity_lines)
            \/ ret'.op = "interactive_input"
    IN  refused => UNCHANGED <<G, entities, relationships>>

\* C23: from an empty generator and through the interactive menu alone, every
\* entity has at least one attribute and pairwise distinct attribute names,
\* every relationship has at least two distinct participants that are all
\* entities, and a refused input (entity name empty or in use, no attribute,
\* relationship name empty or in use, fewer than two valid participants, a
\* choice outside the menu) leaves entities, relationships and the graph as
\* they were.
C23_InteractiveModelValid ==
    /\ [](EntitiesValid /\ RelationshipsValid)
    /\ [][RejectedUnchanged]_vars

\* C23's case: the menu has added a relationship and then refused its name
C23_Witness ==
    /\ relationships # << >>
    /\ Len(entities) >= 2
    /\ ret.op = "_add_relationship_interactive"
    /\ ret.value[1].printed = "Relationship already exists."

\* the schema of row schema_id cannot be loaded: no database is configured,
\* the table has no such row, or psycopg2 fails in the call
CannotLoad(schema_id, failure) ==
    ~database_url \/ ~HasRow(schema_id) \/ failure # "none"

LoadReturns(ok) ==
    ret'.op = "load_from_database" /\ ret'.exc = "None" /\ ret'.value = <<[ok |-> ok]>>

\* C24: load_from_database returns False and leaves entities, relationships,
\* the graph and current_schema_id as they were when the schema cannot be
\* loaded; when it returns True, entities and relationships are those of the
\* stored schema and nothing else, and current_schema_id is the id asked for.
C24_LoadFromDatabase ==
    [][\A schema_id \in 1..MaxSchemas, failure \in DbFailures :
          LoadFromDatabase(schema_id, failure)
          => /\ CannotLoad(schema_id, failure)
                => /\ LoadReturns(FALSE)
                   /\ UNCHANGED <<G, entities, relationships, current_schema_id>>
             /\ LoadReturns(TRUE)
                => /\ AsMap(entities') = AsMap(Row(schema_id).schema_data.entities)
                   /\ AsMap(relationships') = AsMap(Row(schema_id).schema_data.relationships)
                   /\ current_schema_id' = schema_id]_vars

Element(kind, owner, name) == [kind |-> kind, owner |-> owner, name |-> name]

Named(attributes) == { a \in Range(attributes) : "name" \in DOMAIN a }

\* every element of the model with the graph node add_entity and
\* add_relationship key it with
ModelNodes ==
    { [element |-> Element("entity", entities[i].key, ""), node |-> entities[i].key] :
        i \in 1..Len(entities) }
    \cup { [element |-> Element("relationship", relationships[i].key, ""),
            node |-> relationships[i].key] : i \in 1..Len(relationships) }
    \cup UNION { { [element |-> Element("entity_attribute", entities[i].key, a.name),
                    node |-> AttrNode(entities[i].key, a)] : a \in Named(entities[i].value) } :
                 i \in 1..Len(entities) }
    \cup UNION { { [element |-> Element("relationship_attribute", relationships[i].key, a.name),
                    node |-> AttrNode(relationships[i].key, a)] :
                      a \in Named(relationships[i].value.attributes) } :
                 i \in 1..Len(relationships) }

NodesInjective ==
    \A x, y \in ModelNodes : x.element # y.element => x.node # y.node

\* a step that adds an entity or a relationship under a name the model has not
TagsKept ==
    (/\ ret'.exc = "None"
     /\ Len(entities') + Len(relationships') = Len(entities) + Len(relationships) + 1)
    => \A n \in DOMAIN G.nodes : n \in DOMAIN G'.nodes /\ G'.nodes[n] = G.nodes[n]

\* C25: distinct elements of the model (an entity, a relationship, an
\* attribute of an owner) have distinct graph nodes, and adding an element
\* leaves the tags of the nodes of the others as they were (stated of the
\* models with unique names, unique attribute names and registered
\* participants).
C25_NodeIdentitiesInjective ==
    /\ [](WellFormed => NodesInjective)
    /\ [][(WellFormed /\ WellFormed') => TagsKept]_vars

ColumnNames(stmt) ==
    [i \in 1..Len(ClausesOfKind(stmt, "column")) |-> ClausesOfKind(stmt, "column")[i].name]

ColumnsDistinct(stmt) ==
    \A i, j \in 1..Len(ColumnNames(stmt)) :
        ColumnNames(stmt)[i] = ColumnNames(stmt)[j] => i = j

\* the entity tables are the first statements of the export
ReferencesDeclared(stmt) ==
    \A fk \in Range(ClausesOfKind(stmt, "foreign_key")) :
        \E i \in 1..Len(entities) :
            /\ ret.value[i].table = fk.table
            /\ fk.ref \in Range(ColumnNames(ret.value[i]))

\* C26: in every join table of an export the column names differ pairwise
\* and every FOREIGN KEY clause references a column that the CREATE TABLE of
\* the referenced entity declares (stated of the models with unique names,
\* unique attribute names and relationships over two distinct entities).
C26_JoinTablesWellFormed ==
    (Exported /\ WellFormed) =>
        \A k \in 1..Len(JoinTables) :
            ColumnsDistinct(JoinTables[k]) /\ ReferencesDeclared(JoinTables[k])

\* what a method of DatabaseManager returns when it fails: None, None, [],
\* False and None
FailureValue(op) ==
    CASE op = "list_schemas" -> <<[rows |-> << >>]>>
      [] op = "delete_schema" -> <<[ok |-> FALSE]>>
      [] OTHER -> << >>

\* the call that ends in the next state met a failure of psycopg2 or no
\* database URL
ReportsFailure(failure) ==
    /\ ret'.exc = "None"
    /\ ret'.closed = ret'.opened
    /\ ~database_url => ret'.opened = 0
    /\ (~database_url \/ failure # "none") => ret'.value = FailureValue(ret'.op)

\* C27: save_schema, load_schema, list_schemas, delete_schema and
\* save_visualization_info never raise: without a database URL they return
\* None, None, [], False and None and open no connection; when connect or
\* execute raises a database error they return the same values, and they
\* close every connection they opened.
C27_DatabaseFailuresAreValues ==
    [][\A failure \in DbFailures :
          (\/ \E schema \in DbSchemas : SaveSchema(schema, failure)
           \/ \E schema_id \in 1..MaxRows :
                 \/ LoadSchema(schema_id, failure)
                 \/ DeleteSchema(schema_id, failure)
                 \/ SaveVisualizationInfo(schema_id, failure)
           \/ ListSchemas(failure))
          => ReportsFailure(failure)]_vars
====
